---- MODULE Spec2Model ----
(***************************************************************************)
(* The canvas particle animation of src/components/BackgroundAnimation.tsx *)
(* as a state machine: the useEffect body (mount), the requestAnimationFrame*)
(* callback animate, the window resize event and the effect cleanup.       *)
(*                                                                         *)
(* Lengths are exact rationals kept as integers: one logical unit (a CSS   *)
(* pixel) is Ticks ticks, and Math.random() returns k / Ticks for a level  *)
(* k in 0 .. Ticks-1, so every product the code forms is a whole number of *)
(* ticks.  Viewport and canvas sizes are kept in units.                    *)
(*                                                                         *)
(* Two further components are modelled next to it, each under its own      *)
(* specification: the add-expense form (ExpenseForm, the second half of    *)
(* BackgroundAnimation.tsx) with the expenses table it writes to, and the  *)
(* page src/components/ExpenseTracker.tsx.                                 *)
(***************************************************************************)
EXTENDS Integers, Sequences, FiniteSets

\* ------------------------------------------------------------------ bounds
MaxFrames == 3      \* animate passes explored per run
MaxResizes == 1     \* window resize events explored per run
MaxStops == 2       \* calls of the effect cleanup explored per run
MaxSeed == 2        \* random streams explored
HalfLevels == 32    \* half the number of values Math.random() is drawn from
NumForms == 2       \* add-expense forms open at once (tabs, devices)
MaxSubmits == 3     \* submissions of the add-expense form explored per run
MaxMutations == 1   \* update and delete mutations of the tracker explored per run
MaxChanges == 1     \* inputs of the edit form explored as changed at once

\* --------------------------------------------------------- program constants
SmallScreenWidth == 600
NumDotsSmall == 25
NumDotsNormal == 50
dotRadius == 5
NumColors == 5
ThresholdSmall == 75
ThresholdNormal == 100
SpeedSpanSmall == 2
SpeedSpanNormal == 4

Ticks == 2 * HalfLevels

\* The viewport sizes (innerWidth, innerHeight) the window takes.
Viewports == { <<400, 300>>, <<600, 400>>, <<1920, 1080>> }

VARIABLES
  phase,                \* "rendered" (effect not yet run), "mounted", "unmounted"
  canvasPresent,        \* canvasRef.current is an element
  ctxPresent,           \* canvas.getContext('2d') returns a context
  innerWidth,           \* window.innerWidth
  innerHeight,          \* window.innerHeight
  canvasWidth,          \* canvas.width
  canvasHeight,         \* canvas.height
  isSmallScreen,        \* the effect's const isSmallScreen
  numDots,              \* the effect's const numDots
  connectionThreshold,  \* the effect's const connectionThreshold
  dots,                 \* the effect's array dots
  rafQueue,             \* animate callbacks requested and not yet run
  listeners,            \* resize listeners registered on window
  hasCleanup,           \* the effect returned its cleanup function
  threw,                \* a handler dereferenced a null canvas or context
  seed,                 \* the state of the random source when the effect runs
  firstDot,             \* << >>, or << d >>: the draws of the first dot make it d
  created,              \* history: dots as createDots left them
  mountWidth,           \* history: window.innerWidth as the effect read it
  frames,               \* history: animate passes run so far
  frameOps,             \* history: what the last animate pass did, in order
  lines,                \* history: the lines the last drawConnections stroked
  flipsX,               \* history: per dot, sign changes of dx in the last updateDots
  flipsY,               \* history: per dot, sign changes of dy in the last updateDots
  lastEvent,            \* history: the handler that ran last
  resizes,              \* history: resize events so far
  stops,                \* history: cleanup calls so far
  framesAfterStop,      \* history: animate passes run after the first cleanup
  stranded,             \* history: dots the last resize left outside the canvas
                        \* that no pass since has left inside it
  expenses,             \* the rows of the table "expenses", in order of insertion
  forms,                \* per open ExpenseForm: its mutation and isSubmitting
  submits,              \* history: submissions of the forms so far
  user,                 \* ExpenseTracker: << >> for null, or << u >>
  userCheck,            \* ExpenseTracker: how far checkUser has got
  isEditing,            \* ExpenseTracker: << >> for null, or << id >>
  formData,             \* ExpenseTracker: << >> for null, or << expense >>
  isFormOpen,           \* ExpenseTracker: the add-expense form is shown
  todayExpenses,        \* ExpenseTracker: the data of the query "todayExpenses"
  pending,              \* ExpenseTracker: mutations sent and not yet settled
  issued,               \* history: every mutation the tracker has issued
  navigations,          \* history: the routes pushed on the router
  shown                 \* history: everything the tracker has rendered so far

vars == << phase, canvasPresent, ctxPresent, innerWidth, innerHeight,
           canvasWidth, canvasHeight, isSmallScreen, numDots,
           connectionThreshold, dots, rafQueue, listeners, hasCleanup,
           threw, seed, firstDot,
           created, mountWidth, frames, frameOps, lines, flipsX, flipsY, lastEvent,
           resizes, stops, framesAfterStop, stranded,
           expenses, forms, submits,
           user, userCheck, isEditing, formData, isFormOpen, todayExpenses,
           pending, issued, navigations, shown >>

\* The state of the page ExpenseTracker.
trackerVars ==
  << user, userCheck, isEditing, formData, isFormOpen, todayExpenses,
     pending, issued, navigations, shown >>

\* The state of the add-expense forms and of the table behind them.
formVars == << expenses, forms, submits >>

\* The state of the animation.
animationVars ==
  << phase, canvasPresent, ctxPresent, innerWidth, innerHeight, canvasWidth,
     canvasHeight, isSmallScreen, numDots, connectionThreshold, dots,
     rafQueue, listeners, hasCleanup, threw, seed, firstDot, created,
     mountWidth, frames, frameOps, lines, flipsX, flipsY, lastEvent, resizes,
     stops, framesAfterStop, stranded >>

\* ------------------------------------------------------------ Math.random
\* The pseudo-random source: a linear congruential generator over 0 .. 4095.
NextRandom(s) == (1229 * s + 17) % 4096

\* Math.random() of generator state s, as a level k meaning k / Ticks.
RandomLevel(s) == (s * Ticks) \div 4096

\* ------------------------------------------------------------- createDots
\* line 31: dotRadius * (1 + (Math.random() * 0.6 - 0.3)), in ticks
randomSize(k) == (dotRadius * (10 * Ticks + (6 * k - 3 * Ticks))) \div 10

\* Faulty variant of randomSpeed: the speed span of a normal screen is always used.
randomSpeedAlwaysNormal(k, small) == ((2 * k - Ticks) * SpeedSpanNormal) \div 2

\* lines 35-36: (Math.random() - 0.5) * (isSmallScreen ? 2 : 4), in ticks
randomSpeed(k, small) ==
  ((2 * k - Ticks) * (IF small THEN SpeedSpanSmall ELSE SpeedSpanNormal)) \div 2

\* line 38: colors[Math.floor(Math.random() * colors.length)], as an index
randomColor(k) == (k * NumColors) \div Ticks

\* One iteration of the loop of createDots: six draws, in the order the
\* code makes them, from generator state s.
newDot(s, w, h, small) ==
  LET s1 == NextRandom(s)
      s2 == NextRandom(s1)
      s3 == NextRandom(s2)
      s4 == NextRandom(s3)
      s5 == NextRandom(s4)
      s6 == NextRandom(s5)
  IN  [ x      |-> RandomLevel(s2) * w,
        y      |-> RandomLevel(s3) * h,
        dx     |-> randomSpeed(RandomLevel(s4), small),
        dy     |-> randomSpeed(RandomLevel(s5), small),
        radius |-> randomSize(RandomLevel(s1)),
        color  |-> randomColor(RandomLevel(s6)) ]

RECURSIVE Advance(_, _)
Advance(s, n) == IF n = 0 THEN s ELSE Advance(NextRandom(s), n - 1)

RECURSIVE createDotsFrom(_, _, _, _, _, _)
createDotsFrom(i, n, s, w, h, small) ==
  IF i >= n THEN << >>
  ELSE << newDot(s, w, h, small) >>
         \o createDotsFrom(i + 1, n, Advance(s, 6), w, h, small)

createDots(n, s, w, h, small) == createDotsFrom(0, n, s, w, h, small)

\* -------------------------------------------------------- drawConnections
Abs(a) == IF a < 0 THEN 0 - a ELSE a

\* line 63-64: Math.hypot(ax, ay) < t, on exact values (t in ticks).  The
\* comparison of the squares is made only when both legs are shorter than t,
\* as the hypotenuse is at least as long as either leg.
hypotBelow(ax, ay, t) ==
  /\ Abs(ax) < t
  /\ Abs(ay) < t
  /\ ax * ax + ay * ay < t * t

\* lines 64-72: the line stroked for the pair (i, j), if any
connection(ds, i, j, threshold) ==
  IF hypotBelow(ds[i].x - ds[j].x, ds[i].y - ds[j].y, threshold * Ticks)
  THEN << [from |-> i, to |-> j, color |-> ds[i].color] >>
  ELSE << >>

\* Faulty variant of innerStart: the inner loop starts at the first dot.
innerStartFromFirst(i) == 1

\* line 60: the first index of the inner loop
innerStart(i) == i + 1

RECURSIVE connectionsInner(_, _, _, _)
connectionsInner(ds, i, j, threshold) ==
  IF j > Len(ds) THEN << >>
  ELSE connection(ds, i, j, threshold)
         \o connectionsInner(ds, i, j + 1, threshold)

RECURSIVE connectionsOuter(_, _, _)
connectionsOuter(ds, i, threshold) ==
  IF i > Len(ds) THEN << >>
  ELSE connectionsInner(ds, i, innerStart(i), threshold)
         \o connectionsOuter(ds, i + 1, threshold)

\* lines 57-75: every line one call of drawConnections strokes, in order
drawConnections(ds, threshold) == connectionsOuter(ds, 1, threshold)

\* -------------------------------------------------------------- updateDots
\* Faulty variant of flipCount: only the far edge is tested.
flipCountFarEdgeOnly(pos, radius, limit) ==
  IF pos + radius > limit * Ticks THEN 1 ELSE 0

\* lines 82 and 85: how often the sign of the velocity is changed on one
\* axis, for the advanced position pos and the canvas extent limit (units)
flipCount(pos, radius, limit) ==
  IF pos + radius > limit * Ticks \/ pos - radius < 0 THEN 1 ELSE 0

\* Faulty variant of flipsOf: the horizontal test compares with the height.
flipsOfHeightTwice(dot, w, h) ==
  << IF dot.x + dot.dx + dot.radius > h * Ticks
        \/ dot.x + dot.dx - dot.radius < 0 THEN 1 ELSE 0,
     IF dot.y + dot.dy + dot.radius > h * Ticks
        \/ dot.y + dot.dy - dot.radius < 0 THEN 1 ELSE 0 >>

\* lines 82-87: the sign changes of (dx, dy) for one dot in one pass
flipsOf(dot, w, h) ==
  << flipCount(dot.x + dot.dx, dot.radius, w),
     flipCount(dot.y + dot.dy, dot.radius, h) >>

\* Faulty variant of negate: a reversal also halves the speed.
negateHalved(v, n) == IF n = 0 THEN v ELSE 0 - (v \div 2)

\* lines 83 and 86: the velocity v after n sign changes
RECURSIVE negate(_, _)
negate(v, n) == IF n = 0 THEN v ELSE negate(0 - v, n - 1)

\* lines 79-87: the body of the loop of updateDots for one dot
updateDot(dot, w, h) ==
  [ dot EXCEPT !.x = dot.x + dot.dx,
               !.y = dot.y + dot.dy,
               !.dx = negate(dot.dx, flipsOf(dot, w, h)[1]),
               !.dy = negate(dot.dy, flipsOf(dot, w, h)[2]) ]

updateDots(ds, w, h) == [ i \in 1 .. Len(ds) |-> updateDot(ds[i], w, h) ]

\* ---------------------------------------------------------------- the effect
\* Faulty variant of smallScreen: a width of exactly 600 counts as small.
smallScreenInclusive(w) == w <= SmallScreenWidth

\* line 21
smallScreen(w) == w < SmallScreenWidth

\* Faulty variant of setupProceeds: the context is not tested.
setupProceedsWithoutContext == canvasPresent

\* lines 7-11: the effect goes on past its two early returns
setupProceeds == canvasPresent /\ ctxPresent

\* line 92: animate goes on past its early return
animateProceeds == ctxPresent /\ canvasPresent

\* lines 29-41, with the first dot as firstDot gives it
dotsCreated(n, w, h, small) ==
  LET ds == createDots(n, seed, w, h, small)
  IN  IF firstDot = << >> THEN ds ELSE [ ds EXCEPT ![1] = firstDot[1] ]

\* Faulty variant of resizeCanvas: the viewport is classified again.
resizeCanvasReclassify(c, w, h) ==
  [ c EXCEPT !.width = w, !.height = h,
             !.isSmallScreen = (w < SmallScreenWidth),
             !.connectionThreshold =
                IF w < SmallScreenWidth THEN ThresholdSmall ELSE ThresholdNormal ]

\* lines 13-17: resizeCanvas on the effect's closure c, the window being w by h
resizeCanvas(c, w, h) ==
  IF ~canvasPresent THEN c ELSE [ c EXCEPT !.width = w, !.height = h ]

\* What the closure of the effect holds.
closure ==
  [ width |-> canvasWidth, height |-> canvasHeight, dots |-> dots,
    isSmallScreen |-> isSmallScreen, numDots |-> numDots,
    connectionThreshold |-> connectionThreshold ]

\* The centre p is at least radius inside both ends of 0 .. limit (units).
InsideAxis(p, radius, limit) == radius <= p /\ p <= limit * Ticks - radius

\* The dot lies at least its radius inside a canvas of w by h on both axes.
inside(dot, w, h) ==
  /\ InsideAxis(dot.x, dot.radius, w)
  /\ InsideAxis(dot.y, dot.radius, h)

\* A history counter one step on; it stands still once it has passed MaxFrames.
countUp(n) == IF n > MaxFrames THEN n ELSE n + 1

\* Faulty variant of requested: animate requests two callbacks.
requestedTwice(queued) == queued + 2

\* line 93: the callbacks waiting once animate has called requestAnimationFrame
requested(queued) == queued + 1

\* lines 93-95 and 45-56: what one pass of animate does, in the order of the
\* code: the request, then drawDots (clearRect, the arcs, drawConnections),
\* then updateDots
animateOps ==
  << "requestAnimationFrame", "clearRect", "fillDots", "drawConnections",
     "updateDots" >>

\* lines 91-96: one call of animate on the dots ds; taken is 1 for a callback
\* taken from the frame queue and 0 for the call of line 99
animate(ds, taken) ==
  IF ~animateProceeds
  THEN /\ rafQueue' = rafQueue - taken
       /\ dots' = ds
       /\ UNCHANGED << frames, frameOps, lines, flipsX, flipsY,
                       framesAfterStop, stranded >>
  ELSE /\ rafQueue' = requested(rafQueue - taken)
       /\ lines' = drawConnections(ds, connectionThreshold')
       /\ dots' = updateDots(ds, canvasWidth', canvasHeight')
       /\ flipsX' = [ i \in 1 .. Len(ds) |->
                        flipsOf(ds[i], canvasWidth', canvasHeight')[1] ]
       /\ flipsY' = [ i \in 1 .. Len(ds) |->
                        flipsOf(ds[i], canvasWidth', canvasHeight')[2] ]
       /\ frames' = countUp(frames)
       /\ frameOps' = animateOps
       /\ framesAfterStop' = IF stops > 0 THEN countUp(framesAfterStop)
                                          ELSE framesAfterStop
       /\ stranded' = { i \in stranded :
                          ~inside(dots'[i], canvasWidth', canvasHeight') }

\* lines 6-106: the effect body, run once after the first render
Mount ==
  /\ phase = "rendered"
  /\ UNCHANGED << formVars, trackerVars >>
  /\ phase' = "mounted"
  /\ lastEvent' = "mount"
  /\ UNCHANGED << canvasPresent, ctxPresent, innerWidth, innerHeight, seed,
                  firstDot, resizes, stops >>
  /\ IF ~setupProceeds
     THEN UNCHANGED << canvasWidth, canvasHeight, isSmallScreen, numDots,
                       connectionThreshold, dots, rafQueue, listeners,
                       hasCleanup, threw, created, mountWidth, frames,
                       frameOps, lines, flipsX, flipsY, framesAfterStop,
                       stranded >>
     ELSE IF ~canvasPresent
     THEN /\ threw' = TRUE
          /\ UNCHANGED << canvasWidth, canvasHeight, isSmallScreen, numDots,
                          connectionThreshold, dots, rafQueue, listeners,
                          hasCleanup, created, mountWidth, frames, frameOps,
                          lines, flipsX, flipsY, framesAfterStop, stranded >>
     ELSE /\ canvasWidth' = resizeCanvas(closure, innerWidth, innerHeight).width
          /\ canvasHeight' = resizeCanvas(closure, innerWidth, innerHeight).height
          /\ mountWidth' = innerWidth
          /\ isSmallScreen' = smallScreen(innerWidth)
          /\ numDots' = IF isSmallScreen' THEN NumDotsSmall ELSE NumDotsNormal
          /\ connectionThreshold' =
               IF isSmallScreen' THEN ThresholdSmall ELSE ThresholdNormal
          /\ created' = dotsCreated(numDots', canvasWidth', canvasHeight',
                                    isSmallScreen')
          /\ animate(created', 0)
          /\ listeners' = listeners + 1
          /\ hasCleanup' = TRUE
          /\ UNCHANGED threw

\* lines 91-96: the browser runs a requested animation frame callback
FrameCallback ==
  /\ rafQueue > 0
  /\ UNCHANGED << formVars, trackerVars >>
  /\ lastEvent' = "frame"
  /\ UNCHANGED << phase, canvasPresent, ctxPresent, innerWidth, innerHeight,
                  canvasWidth, canvasHeight, isSmallScreen, numDots,
                  connectionThreshold, listeners, hasCleanup, threw, seed,
                  firstDot, created, mountWidth, resizes, stops >>
  /\ animate(dots, 1)

\* A frame callback, for as long as frames are explored.
Frame == frames < MaxFrames /\ FrameCallback

\* lines 13-17 and 101: the window is resized to one of the sizes vs once the
\* effect has run; resizeCanvas runs if it is registered
ResizeTo(vs) ==
  /\ phase # "rendered"
  /\ UNCHANGED << formVars, trackerVars >>
  /\ resizes < MaxResizes
  /\ \E v \in vs :
       /\ v # << innerWidth, innerHeight >>
       /\ innerWidth' = v[1]
       /\ innerHeight' = v[2]
  /\ resizes' = resizes + 1
  /\ lastEvent' = "resize"
  /\ LET c == IF listeners > 0
              THEN resizeCanvas(closure, innerWidth', innerHeight')
              ELSE closure
     IN  /\ canvasWidth' = c.width
         /\ canvasHeight' = c.height
         /\ dots' = c.dots
         /\ isSmallScreen' = c.isSmallScreen
         /\ numDots' = c.numDots
         /\ connectionThreshold' = c.connectionThreshold
         /\ stranded' = IF listeners > 0
                         THEN { i \in DOMAIN c.dots :
                                  ~inside(c.dots[i], c.width, c.height) }
                         ELSE stranded
  /\ UNCHANGED << phase, canvasPresent, ctxPresent, rafQueue, listeners,
                  hasCleanup, threw, seed, firstDot, created, mountWidth,
                  frames, frameOps, lines, flipsX, flipsY, stops,
                  framesAfterStop >>

\* A resize event (Init already takes every viewport).
Resize == ResizeTo(Viewports)

\* Faulty variant of removeListener: the listener stays registered.
removeListenerKept(n) == n

\* line 104: removeEventListener of a listener that may not be registered
removeListener(n) == IF n > 0 THEN n - 1 ELSE n

\* lines 103-105: the cleanup the effect returned, run on unmount (and again)
Cleanup ==
  /\ phase \in { "mounted", "unmounted" }
  /\ UNCHANGED << formVars, trackerVars >>
  /\ stops < MaxStops
  /\ phase' = "unmounted"
  /\ stops' = stops + 1
  /\ lastEvent' = "cleanup"
  /\ listeners' = IF hasCleanup THEN removeListener(listeners) ELSE listeners
  /\ UNCHANGED << canvasPresent, ctxPresent, innerWidth, innerHeight,
                  canvasWidth, canvasHeight, isSmallScreen, numDots,
                  connectionThreshold, dots, rafQueue, hasCleanup, threw,
                  seed, firstDot, created, mountWidth, frames, frameOps,
                  lines, flipsX, flipsY, resizes, framesAfterStop,
                  stranded >>

\* ================================================================ ExpenseForm
\* The add-expense form (lines 113-452 of BackgroundAnimation.tsx); several
\* forms may be open on the same table, in different tabs or on different
\* devices.
Forms == 1 .. NumForms

\* The days the date input can hold, as day numbers, and the notes.
Days == { 10, 11 }
Notes == { "", "weekly" }

\* lines 123-133: what handleSubmit hands to onSubmit
ExpenseFormData ==
  [ date : Days, category_id : { "food" }, description : { "milk" },
    quantity : { 1 }, unit : { "Kg" }, amount : { 5 }, note : Notes ]

\* line 188: format(new Date(data.date), 'yyyy-MM-dd').  The date-only string
\* is parsed as midnight UTC and formatted in local time, which west of
\* Greenwich is the day before.
formatDate(day, west) == IF west THEN day - 1 ELSE day

\* lines 194-199: the six columns the duplicate check compares
sixFields(row) ==
  << row.date, row.category_id, row.description, row.quantity, row.unit,
     row.amount >>

\* lines 191-199: the rows the select with its six eq filters finds
matching(rows, data) ==
  SelectSeq(rows, LAMBDA r : sixFields(r) = sixFields(data))

\* line 200: maybeSingle() on the rows found: no row is null without error,
\* one row is that row, several rows are the error PGRST116
maybeSingle(rows) ==
  IF Len(rows) = 0 THEN [ data |-> << >>, error |-> "none" ]
  ELSE IF Len(rows) = 1 THEN [ data |-> << rows[1] >>, error |-> "none" ]
  ELSE [ data |-> << >>, error |-> "PGRST116" ]

\* lines 211-215: the row the insert adds; the table numbers its rows
inserted(rows, data) ==
  [ id |-> Len(rows) + 1, date |-> data.date,
    category_id |-> data.category_id, description |-> data.description,
    quantity |-> data.quantity, unit |-> data.unit, amount |-> data.amount,
    note |-> data.note ]

\* lines 238-244: onError (or onSuccess) and onSettled of the mutation
settled(form, outcome) ==
  [ form EXCEPT !.stage = "idle", !.isSubmitting = FALSE, !.outcome = outcome ]

\* lines 247-250 and 187-188: onSubmit of form f with the data d; the submit
\* button is disabled while isSubmitting (line 443)
onSubmit(f, d) ==
  /\ ~forms[f].isSubmitting
  /\ submits < MaxSubmits
  /\ submits' = submits + 1
  /\ forms' = [ forms EXCEPT ![f] =
                  [ forms[f] EXCEPT
                      !.isSubmitting = TRUE,
                      !.stage = "select",
                      !.outcome = "none",
                      !.matched = 0,
                      !.data = << [ d EXCEPT !.date =
                                      formatDate(d.date, forms[f].west) ] >> ] ]
  /\ UNCHANGED << expenses, animationVars, trackerVars >>

\* lines 191-208: the duplicate check of form f is answered (failure: the
\* request fails for another reason) and the mutation goes on or throws
selectSettles(f, failure) ==
  /\ forms[f].stage = "select"
  /\ LET found == matching(expenses, forms[f].data[1])
         res   == IF failure THEN [ data |-> << >>, error |-> "failed" ]
                             ELSE maybeSingle(found)
         seen  == [ forms[f] EXCEPT !.matched = Len(found) ]
     IN  forms' = [ forms EXCEPT ![f] =
                      IF res.error # "none" /\ res.error # "PGRST116"
                      THEN settled(seen, "checkError")
                      ELSE IF res.data # << >>
                      THEN settled(seen, "Duplicate expense entry")
                      ELSE [ seen EXCEPT !.stage = "insert" ] ]
  /\ UNCHANGED << expenses, submits, animationVars, trackerVars >>

\* lines 211-244: the insert of form f is answered
insertSettles(f, failure) ==
  /\ forms[f].stage = "insert"
  /\ expenses' = IF failure THEN expenses
                 ELSE Append(expenses, inserted(expenses, forms[f].data[1]))
  /\ forms' = [ forms EXCEPT ![f] =
                  settled(forms[f], IF failure THEN "insertError" ELSE "added") ]
  /\ UNCHANGED << submits, animationVars, trackerVars >>

\* Forms just opened, each in its own time zone.
FormsOpened ==
  /\ submits = 0
  /\ forms \in [ Forms -> { [ stage |-> "idle", isSubmitting |-> FALSE,
                              outcome |-> "none", matched |-> 0,
                              data |-> << >>, west |-> w ] :
                            w \in BOOLEAN } ]

\* No form is in use.
FormsUnused ==
  /\ submits = 0
  /\ forms = [ f \in Forms |-> [ stage |-> "idle", isSubmitting |-> FALSE,
                                 outcome |-> "none", matched |-> 0,
                                 data |-> << >>, west |-> FALSE ] ]

\* ============================================================= ExpenseTracker
\* The day the page is looked at.
Today == 10

\* What the edit form's inputs can be changed to (lines 222-252).  A number
\* input's text is kept as the number it stands for.
ChangeValues(name) ==
  IF name \in { "quantity", "amount" } THEN { 2 } ELSE { "tea" }

\* The inputs followed: a text input and a number input.
ChangeNames == { "description", "amount" }

\* lines 84-96: the rows the query "todayExpenses" selects
todayRows(rows) == SelectSeq(rows, LAMBDA r : r.date = Today)

\* Row i of the list shows the edit form (line 220).
editFormAt(i, rows, editing) == editing = << rows[i].id >>

\* Faulty variant of render: the full page is returned without a user too.
renderUnguarded(u, editing, open, rows) ==
  { "signOut", "totals", "list", "add" }
    \cup (IF \E i \in DOMAIN rows : editFormAt(i, rows, editing)
          THEN { "editForm" } ELSE { })
    \cup (IF \E i \in DOMAIN rows : ~editFormAt(i, rows, editing)
          THEN { "edit", "delete" } ELSE { })
    \cup (IF open THEN { "expenseForm" } ELSE { })

\* lines 137-320: what the component returns for the user u, the value
\* editing of isEditing, the value open of isFormOpen and the listed rows
render(u, editing, open, rows) ==
  IF u = << >> THEN { "loader" }
  ELSE { "signOut", "totals", "list", "add" }
         \cup (IF \E i \in DOMAIN rows : editFormAt(i, rows, editing)
               THEN { "editForm" } ELSE { })
         \cup (IF \E i \in DOMAIN rows : ~editFormAt(i, rows, editing)
               THEN { "edit", "delete" } ELSE { })
         \cup (IF open THEN { "expenseForm" } ELSE { })

\* What is on the screen now.
screen == render(user, isEditing, isFormOpen, todayExpenses)

\* The render that follows a handler.
rerender ==
  shown' = shown \cup render(user', isEditing', isFormOpen', todayExpenses')

\* lines 35-45: getCurrentUser settles with a user, with no user, or rejects
checkUserSettles(result) ==
  /\ userCheck = "pending"
  /\ userCheck' = result
  /\ user' = IF result = "user" THEN << "owner" >> ELSE user
  /\ navigations' = IF result = "none" THEN Append(navigations, "/signin")
                                       ELSE navigations
  /\ UNCHANGED << isEditing, formData, isFormOpen, todayExpenses, pending,
                  issued, expenses >>
  /\ rerender
  /\ UNCHANGED << forms, submits, animationVars >>

\* lines 47-52: handleSignOut, signOut answering with or without an error;
\* followed once per run
handleSignOut(failure) ==
  /\ "signOut" \in screen
  /\ navigations = << >>
  /\ navigations' = IF failure THEN navigations
                               ELSE Append(navigations, "/signin")
  /\ UNCHANGED << user, userCheck, isEditing, formData, isFormOpen,
                  todayExpenses, pending, issued, expenses >>
  /\ rerender
  /\ UNCHANGED << forms, submits, animationVars >>

\* lines 84-96: the query "todayExpenses" is fetched again (every five
\* seconds, and when a mutation has invalidated it)
refetch ==
  /\ todayExpenses # todayRows(expenses)
  /\ todayExpenses' = todayRows(expenses)
  /\ UNCHANGED << user, userCheck, isEditing, formData, isFormOpen, pending,
                  issued, navigations, expenses >>
  /\ rerender
  /\ UNCHANGED << forms, submits, animationVars >>

\* Faulty variant of edited: setFormData is left out.
editedIdOnly(expense) == [ isEditing |-> << expense.id >>, formData |-> << >> ]

\* lines 286-289: the two state updates of the Edit button of one expense
edited(expense) ==
  [ isEditing |-> << expense.id >>, formData |-> << expense >> ]

\* lines 285-293: the Edit button of row i of the list
Edit(i) ==
  /\ user # << >>
  /\ i \in DOMAIN todayExpenses
  /\ ~editFormAt(i, todayExpenses, isEditing)
  /\ isEditing' = edited(todayExpenses[i]).isEditing
  /\ formData' = edited(todayExpenses[i]).formData
  /\ UNCHANGED << user, userCheck, isFormOpen, todayExpenses, pending, issued,
                  navigations, expenses >>
  /\ rerender
  /\ UNCHANGED << forms, submits, animationVars >>

\* line 125: the updater handleChange passes to setFormData
changed(prev, name, value) ==
  IF prev # << >> THEN << [ prev[1] EXCEPT ![name] = value ] >> ELSE << >>

\* The inputs in which the edit form differs from the expense it was opened on.
changedInputs(data) ==
  { n \in ChangeNames :
      \E i \in DOMAIN todayExpenses :
        todayExpenses[i].id = data.id /\ todayExpenses[i][n] # data[n] }

\* lines 123-126: an input of the edit form is changed
handleChange(name, value) ==
  /\ "editForm" \in screen
  /\ formData # << >> =>
       Cardinality(changedInputs(formData[1]) \cup { name }) <= MaxChanges
  /\ formData' = changed(formData, name, value)
  /\ UNCHANGED << user, userCheck, isEditing, isFormOpen, todayExpenses,
                  pending, issued, navigations, expenses >>
  /\ rerender
  /\ UNCHANGED << forms, submits, animationVars >>

\* lines 257-266: the Cancel button of the edit form
Cancel ==
  /\ "editForm" \in screen
  /\ isEditing' = << >>
  /\ formData' = << >>
  /\ UNCHANGED << user, userCheck, isFormOpen, todayExpenses, pending, issued,
                  navigations, expenses >>
  /\ rerender
  /\ UNCHANGED << forms, submits, animationVars >>

\* lines 128-135: handleSubmit, the edit form is submitted with Save
handleSubmit ==
  /\ "editForm" \in screen
  /\ Len(issued) < MaxMutations
  /\ IF formData # << >>
     THEN /\ pending' = Append(pending, [ kind |-> "update",
                                          data |-> formData[1] ])
          /\ issued' = Append(issued, [ kind |-> "update",
                                        data |-> formData[1] ])
          /\ isEditing' = << >>
          /\ formData' = << >>
     ELSE UNCHANGED << pending, issued, isEditing, formData >>
  /\ UNCHANGED << user, userCheck, isFormOpen, todayExpenses, navigations,
                  expenses >>
  /\ rerender
  /\ UNCHANGED << forms, submits, animationVars >>

\* lines 119-121 and 294-299: the Delete button of row i of the list
handleDelete(i) ==
  /\ user # << >>
  /\ i \in DOMAIN todayExpenses
  /\ ~editFormAt(i, todayExpenses, isEditing)
  /\ Len(issued) < MaxMutations
  /\ pending' = Append(pending, [ kind |-> "delete",
                                  data |-> todayExpenses[i] ])
  /\ issued' = Append(issued, [ kind |-> "delete",
                                data |-> todayExpenses[i] ])
  /\ UNCHANGED << user, userCheck, isEditing, formData, isFormOpen,
                  todayExpenses, navigations, expenses >>
  /\ rerender
  /\ UNCHANGED << forms, submits, animationVars >>

\* lines 99 and 110: what the table holds once the mutation m has been applied
applied(rows, m) ==
  IF m.kind = "delete"
  THEN SelectSeq(rows, LAMBDA r : r.id # m.data.id)
  ELSE [ i \in DOMAIN rows |->
           IF rows[i].id = m.data.id THEN m.data ELSE rows[i] ]

\* lines 97-117: the mutation sent k-th of those waiting settles, applied to
\* the table or failed; its onSuccess only invalidates the queries
mutationSettles(k, failure) ==
  /\ k \in DOMAIN pending
  /\ pending' = SubSeq(pending, 1, k - 1) \o SubSeq(pending, k + 1, Len(pending))
  /\ expenses' = IF failure THEN expenses ELSE applied(expenses, pending[k])
  /\ UNCHANGED << user, userCheck, isEditing, formData, isFormOpen,
                  todayExpenses, issued, navigations >>
  /\ rerender
  /\ UNCHANGED << forms, submits, animationVars >>

\* lines 310-316: the Add Expense button, and onClose of the form it opens
toggleForm ==
  /\ IF isFormOpen THEN "expenseForm" \in screen ELSE "add" \in screen
  /\ isFormOpen' = ~isFormOpen
  /\ UNCHANGED << user, userCheck, isEditing, formData, todayExpenses,
                  pending, issued, navigations, expenses >>
  /\ rerender
  /\ UNCHANGED << forms, submits, animationVars >>

\* lines 25-34 and 137-149: the first render, the effect having called
\* checkUser and the queries not yet answered
TrackerRendered ==
  /\ user = << >>
  /\ userCheck = "pending"
  /\ isEditing = << >>
  /\ formData = << >>
  /\ isFormOpen = FALSE
  /\ todayExpenses = << >>
  /\ pending = << >>
  /\ issued = << >>
  /\ navigations = << >>
  /\ shown = { "loader" }

\* ============================================================ initial states
\* The component as rendered, before its effect has run.  A canvas element
\* without width and height attributes is 300 by 150.
Rendered ==
  /\ phase = "rendered"
  /\ canvasPresent \in BOOLEAN
  /\ ctxPresent \in BOOLEAN
  /\ \E v \in Viewports : innerWidth = v[1] /\ innerHeight = v[2]
  /\ canvasWidth = 300
  /\ canvasHeight = 150
  /\ isSmallScreen = FALSE
  /\ numDots = 0
  /\ connectionThreshold = 0
  /\ dots = << >>
  /\ rafQueue = 0
  /\ listeners = 0
  /\ hasCleanup = FALSE
  /\ threw = FALSE
  /\ created = << >>
  /\ mountWidth = 0
  /\ frames = 0
  /\ frameOps = << >>
  /\ lines = << >>
  /\ flipsX = << >>
  /\ flipsY = << >>
  /\ lastEvent = "render"
  /\ resizes = 0
  /\ stops = 0
  /\ framesAfterStop = 0
  /\ stranded = { }

\* The table is empty, no form is in use and the tracker is at its first
\* render.
PagesUnused ==
  /\ expenses = << >>
  /\ FormsUnused
  /\ TrackerRendered

\* The animation as rendered on a narrow screen, left alone.
AnimationUnused ==
  /\ Rendered
  /\ canvasPresent
  /\ ctxPresent
  /\ innerWidth < SmallScreenWidth
  /\ seed = 1
  /\ firstDot = << >>

Init ==
  /\ Rendered
  /\ PagesUnused
  /\ seed \in 1 .. MaxSeed
  /\ firstDot = << >>

Next == Mount \/ Frame \/ Resize \/ Cleanup

Spec == Init /\ [][Next]_vars

\* ------------------------------------------------------- the bounce scenario
\* First dots placed about the left edge: the centre half a unit or three
\* units inside of where the dot touches the edge, or half a unit beyond it,
\* moving left at one unit per frame or right at half a unit per frame.
ScenarioDots ==
  { [ x |-> randomSize(k) + off, y |-> 100 * Ticks, dx |-> v, dy |-> 2,
      radius |-> randomSize(k), color |-> 0 ] :
      k \in { HalfLevels },
      off \in { 0 - HalfLevels, HalfLevels, 3 * Ticks },
      v \in { 0 - Ticks, HalfLevels } }

InitScenario ==
  /\ Rendered
  /\ PagesUnused
  /\ canvasPresent
  /\ ctxPresent
  /\ innerWidth < SmallScreenWidth
  /\ seed = 1
  /\ firstDot \in { << d >> : d \in ScenarioDots }

SpecScenario == InitScenario /\ [][Next]_vars

\* ------------------------------------------------- the shrunk-window scenario
\* A wide window is shrunk to a few units, which leaves every dot beyond the
\* new edges; from then on frames are explored without bound, and the browser
\* runs every frame callback that was requested.
ShrunkViewports == { <<18, 14>>, <<20, 14>>, <<20, 15>>, <<22, 14>>, <<22, 15>> }

InitShrink ==
  /\ Rendered
  /\ PagesUnused
  /\ canvasPresent
  /\ ctxPresent
  /\ innerWidth > SmallScreenWidth
  /\ seed \in 1 .. MaxSeed
  /\ firstDot = << >>

Shrink == ResizeTo(ShrunkViewports)

FrameShrunk == (frames < MaxFrames \/ canvasWidth < mountWidth) /\ FrameCallback

NextShrink == Mount \/ FrameShrunk \/ Shrink

SpecShrink == InitShrink /\ [][NextShrink]_vars /\ WF_vars(FrameShrunk)

\* ------------------------------------------------------ the add-expense forms
InitForm ==
  /\ AnimationUnused
  /\ TrackerRendered
  /\ expenses = << >>
  /\ FormsOpened

NextForm ==
  \/ \E f \in Forms, d \in ExpenseFormData : onSubmit(f, d)
  \/ \E f \in Forms, failure \in BOOLEAN : selectSettles(f, failure)
  \/ \E f \in Forms, failure \in BOOLEAN : insertSettles(f, failure)

SpecForm == InitForm /\ [][NextForm]_vars

\* ------------------------------------------------------------- the tracker
\* The table as three earlier submissions of the form have left it.
TrackedRows ==
  << [ id |-> 1, date |-> 10, category_id |-> "food", description |-> "milk",
       quantity |-> 1, unit |-> "Kg", amount |-> 5, note |-> "" ],
     [ id |-> 2, date |-> 10, category_id |-> "food", description |-> "rice",
       quantity |-> 1, unit |-> "Kg", amount |-> 5, note |-> "weekly" ],
     [ id |-> 3, date |-> 11, category_id |-> "food", description |-> "milk",
       quantity |-> 1, unit |-> "Kg", amount |-> 5, note |-> "" ] >>

InitTracker ==
  /\ AnimationUnused
  /\ FormsUnused
  /\ expenses = TrackedRows
  /\ TrackerRendered

NextTracker ==
  \/ \E result \in { "user", "none", "rejected" } : checkUserSettles(result)
  \/ \E failure \in BOOLEAN : handleSignOut(failure)
  \/ refetch
  \/ \E i \in 1 .. Len(TrackedRows) : Edit(i)
  \/ \E name \in ChangeNames : \E value \in ChangeValues(name) :
       handleChange(name, value)
  \/ Cancel
  \/ handleSubmit
  \/ \E i \in 1 .. Len(TrackedRows) : handleDelete(i)
  \/ \E k \in 1 .. MaxMutations, failure \in BOOLEAN :
       mutationSettles(k, failure)
  \/ toggleForm

SpecTracker == InitTracker /\ [][NextTracker]_vars

\* ================================================================= claims
\* The dots one animate pass starts from: the created dots for the pass the
\* effect runs itself, the current dots for a frame callback.
PassInput == IF phase = "rendered" THEN created' ELSE dots

\* A step that runs one full animate pass.
PassStep == frames' = frames + 1

\* A step that handles one resize event.
ResizeStep == resizes' = resizes + 1

\* C1: once the effect has set the animation up, the dots array holds
\* exactly 25 dots if window.innerWidth was below 600 when the effect read
\* it and exactly 50 otherwise, whatever frames and resizes have happened.
C1_ParticleCount ==
  hasCleanup =>
    /\ Len(dots) = (IF mountWidth < 600 THEN 25 ELSE 50)
    /\ numDots = Len(dots)
    /\ Len(created) = Len(dots)

\* C1 witness: a set-up animation on a viewport that was narrow at mount and
\* is wide now, frames having run before and after.
C1_Witness ==
  /\ hasCleanup
  /\ mountWidth < 600
  /\ innerWidth >= 600
  /\ resizes > 0
  /\ lastEvent = "frame"
  /\ frames >= 3

\* C2 (as claimed): right after the boundary check of any animate pass every
\* dot lies at least its radius inside the canvas on both axes.
C2_Contained ==
  (hasCleanup /\ lastEvent \in { "mount", "frame" }) =>
    \A i \in DOMAIN dots :
      /\ InsideAxis(dots[i].x, dots[i].radius, canvasWidth)
      /\ InsideAxis(dots[i].y, dots[i].radius, canvasHeight)

\* C2 (amended): right after the boundary check of any animate pass, on each
\* axis a dot either lies at least its radius inside the canvas or has had
\* its velocity on that axis reversed by that pass.
C2_ContainedOrReversed ==
  [][ PassStep =>
        \A i \in DOMAIN dots' :
          /\ \/ InsideAxis(dots'[i].x, dots'[i].radius, canvasWidth')
             \/ dots'[i].dx = 0 - PassInput[i].dx
          /\ \/ InsideAxis(dots'[i].y, dots'[i].radius, canvasHeight')
             \/ dots'[i].dy = 0 - PassInput[i].dy ]_vars

\* C2 witness: a frame has left a moving dot beyond the left edge with its
\* horizontal velocity reversed.
C2_Witness ==
  /\ lastEvent = "frame"
  /\ \E i \in DOMAIN dots :
       /\ dots[i].x < dots[i].radius
       /\ flipsX[i] = 1
       /\ dots[i].dx > 0

\* C3 (as claimed): after the cleanup has run at most one animate pass runs,
\* and that pass leaves no further callback requested.
C3_LoopStopsAfterCleanup ==
  stops > 0 =>
    /\ framesAfterStop <= 1
    /\ framesAfterStop = 1 => rafQueue = 0

\* C4: in every animate pass and for each axis of each dot, the velocity is
\* negated exactly once if the advanced centre plus or minus the radius lies
\* outside the canvas on that axis, and not at all otherwise.
C4_FlipOncePerAxis ==
  [][ PassStep =>
        \A i \in DOMAIN dots' :
          LET d == PassInput[i]
              outX == \/ d.x + d.dx + d.radius > canvasWidth' * Ticks
                      \/ d.x + d.dx - d.radius < 0
              outY == \/ d.y + d.dy + d.radius > canvasHeight' * Ticks
                      \/ d.y + d.dy - d.radius < 0
          IN  /\ flipsX'[i] = (IF outX THEN 1 ELSE 0)
              /\ flipsY'[i] = (IF outY THEN 1 ELSE 0)
              /\ dots'[i].dx = (IF outX THEN 0 - d.dx ELSE d.dx)
              /\ dots'[i].dy = (IF outY THEN 0 - d.dy ELSE d.dy) ]_vars

\* C4 witness: a frame in which one dot was reversed on one axis only and
\* another dot on neither.
C4_Witness ==
  /\ lastEvent = "frame"
  /\ \E i, j \in DOMAIN dots :
       /\ flipsX[i] = 1 /\ flipsY[i] = 0 /\ dots[i].dx # 0
       /\ flipsX[j] = 0 /\ flipsY[j] = 0

\* C5 (as claimed): a dot created at x = radius - 0.5 with dx = -1 has
\* dx = +1 after one update step and x >= radius after the next one.
C5_ReflectedBackInside ==
  \A i \in DOMAIN created :
    (created[i].x = created[i].radius - HalfLevels /\ created[i].dx = 0 - Ticks)
      => /\ frames = 1 => dots[i].dx = Ticks
         /\ frames = 2 => dots[i].x >= dots[i].radius

\* The centres of p and q are closer than t ticks.
CentresCloserThan(p, q, t) ==
  LET ax == Abs(p.x - q.x)
      ay == Abs(p.y - q.y)
  IN  ax < t /\ ay < t /\ ax * ax + ay * ay < t * t

\* C6: in each animate pass, for every unordered pair of distinct dots
\* exactly one line is stroked if their centres are closer than the
\* connection threshold and none otherwise, and a line has the colour of the
\* lower-indexed dot of its pair.
C6_Connections ==
  [][ PassStep =>
        LET ds == PassInput
            near == { { q[1], q[2] } :
                      q \in { r \in (DOMAIN ds) \X (DOMAIN ds) :
                                /\ r[1] < r[2]
                                /\ CentresCloserThan(ds[r[1]], ds[r[2]],
                                     connectionThreshold' * Ticks) } }
            drawn == { { lines'[k].from, lines'[k].to } : k \in DOMAIN lines' }
        IN  /\ drawn = near
            /\ Cardinality(drawn) = Len(lines')
            /\ \A k \in DOMAIN lines' :
                 LET l == lines'[k]
                     low == IF l.from < l.to THEN l.from ELSE l.to
                 IN  l.from # l.to /\ l.color = ds[low].color ]_vars

\* C6 witness: a frame that joined some pairs of dots and left others apart.
C6_Witness ==
  /\ lastEvent = "frame"
  /\ Len(lines) > 0
  /\ Len(lines) < (numDots * (numDots - 1)) \div 2

\* C7 (as claimed): a viewport narrower than 600 at mount gives threshold 75
\* and velocities within [-1, 1], a viewport of 600 or more gives threshold
\* 100 and velocities within [-2, 2], and no created dot has dx = 0 or dy = 0.
C7_MountParametersNonZero ==
  hasCleanup =>
    LET span == IF mountWidth < 600 THEN 1 ELSE 2
    IN  /\ connectionThreshold = (IF mountWidth < 600 THEN 75 ELSE 100)
        /\ \A i \in DOMAIN created :
             /\ Abs(created[i].dx) <= span * Ticks
             /\ Abs(created[i].dy) <= span * Ticks
             /\ created[i].dx # 0
             /\ created[i].dy # 0

\* C7 (amended): a viewport narrower than 600 at mount gives threshold 75
\* and velocities within [-1, 1], a viewport of 600 or more gives threshold
\* 100 and velocities within [-2, 2]; a velocity component may be zero.
C7_MountParameters ==
  hasCleanup =>
    LET span == IF mountWidth < 600 THEN 1 ELSE 2
    IN  /\ connectionThreshold = (IF mountWidth < 600 THEN 75 ELSE 100)
        /\ \A i \in DOMAIN created :
             /\ Abs(created[i].dx) <= span * Ticks
             /\ Abs(created[i].dy) <= span * Ticks
             /\ Abs(dots[i].dx) <= span * Ticks
             /\ Abs(dots[i].dy) <= span * Ticks

\* C7 witness: a mount on a wide viewport that created a dot faster than one
\* unit per frame and a dot with a zero velocity component.
C7_Witness ==
  /\ hasCleanup
  /\ mountWidth >= 600
  /\ \E i \in DOMAIN created : Abs(created[i].dx) > Ticks
  /\ \E j \in DOMAIN created : created[j].dx = 0 \/ created[j].dy = 0

\* C8: a resize event leaves the dots, their number, the connection
\* threshold and the small/normal classification as they were, and sets the
\* canvas to the new viewport size while the listener is registered.
C8_ResizeOnlySurface ==
  [][ ResizeStep =>
        /\ dots' = dots
        /\ numDots' = numDots
        /\ connectionThreshold' = connectionThreshold
        /\ isSmallScreen' = isSmallScreen
        /\ (listeners > 0 =>
              canvasWidth' = innerWidth' /\ canvasHeight' = innerHeight') ]_vars

\* C8 witness: a resize handled by the animation has just moved the
\* viewport across the width of 600.
C8_Witness ==
  /\ lastEvent = "resize"
  /\ listeners > 0
  /\ frames >= 2
  /\ (mountWidth < 600) # (innerWidth < 600)
  /\ canvasWidth = innerWidth
  /\ Len(dots) = numDots

\* C9: when the canvas element or its 2D context is missing as the effect
\* runs, then and ever after there are no dots, no requested frame, no draw,
\* no resize listener and no error.
C9_SilentNoOp ==
  (phase # "rendered" /\ ~(canvasPresent /\ ctxPresent)) =>
    /\ dots = << >>
    /\ created = << >>
    /\ rafQueue = 0
    /\ frames = 0
    /\ frameOps = << >>
    /\ lines = << >>
    /\ listeners = 0
    /\ ~hasCleanup
    /\ ~threw

\* C9 witness: a view without a 2D context that was mounted, resized and
\* unmounted.
C9_Witness ==
  /\ phase = "unmounted"
  /\ canvasPresent
  /\ ~ctxPresent
  /\ resizes > 0
  /\ stops > 0

\* C10: from a successful mount to the first cleanup exactly one resize
\* listener is registered, after it none, and a further call of the cleanup
\* changes nothing.
C10_OneListenerUntilStop ==
  /\ [](hasCleanup => listeners = (IF stops = 0 THEN 1 ELSE 0))
  /\ [][ (stops > 0 /\ stops' = stops + 1) =>
           UNCHANGED << phase, canvasPresent, ctxPresent, innerWidth,
                        innerHeight, canvasWidth, canvasHeight, isSmallScreen,
                        numDots, connectionThreshold, dots, rafQueue,
                        listeners, hasCleanup, threw >> ]_vars

\* C10 witness: a set-up animation whose cleanup has run twice.
C10_Witness ==
  /\ hasCleanup
  /\ stops = 2
  /\ listeners = 0

\* C11 (as claimed): no frame after a resize throws, and every dot that a
\* resize has left outside the new bounds is, after some later frame, at
\* least its radius inside the canvas on both axes -- so that, some frames
\* after the resize, no dot it stranded is still waiting to come inside.
C11_StrandedDotsReconciled ==
  /\ [](~threw)
  /\ (stranded # { }) ~> (stranded = { })

\* C12: whatever frames and resizes have happened, every dot still has the
\* radius and the colour it was created with, the radius within 3.5 to 6.5
\* units and the colour one of the five of the palette, and velocity
\* components of the magnitudes it was created with; a dot is made of
\* nothing but position, velocity, radius and colour.
C12_CreationValuesKept ==
  hasCleanup =>
    /\ DOMAIN dots = DOMAIN created
    /\ \A i \in DOMAIN dots :
         /\ DOMAIN dots[i] = { "x", "y", "dx", "dy", "radius", "color" }
         /\ dots[i].radius = created[i].radius
         /\ 2 * dots[i].radius >= 7 * Ticks
         /\ 2 * dots[i].radius <= 13 * Ticks
         /\ dots[i].color = created[i].color
         /\ dots[i].color \in 0 .. NumColors - 1
         /\ Abs(dots[i].dx) = Abs(created[i].dx)
         /\ Abs(dots[i].dy) = Abs(created[i].dy)

\* C12 witness: after a resize and a later frame, a moving dot is away from
\* where it was created and has both velocity components reversed.
C12_Witness ==
  /\ lastEvent = "frame"
  /\ resizes > 0
  /\ \E i \in DOMAIN dots :
       /\ dots[i].dx # 0
       /\ dots[i].dx = 0 - created[i].dx
       /\ dots[i].dy # 0
       /\ dots[i].dy = 0 - created[i].dy
       /\ dots[i].x # created[i].x

\* C13 (as claimed): every animate pass is run by a frame callback, clears,
\* draws the dots, draws the connections, advances and boundary-checks, and
\* only then requests the next callback; no more than one callback is ever
\* waiting.
C13_RequestAtEnd ==
  [][ /\ rafQueue' <= 1
      /\ PassStep =>
            /\ lastEvent' = "frame"
            /\ frameOps' = << "clearRect", "fillDots", "drawConnections",
                              "updateDots", "requestAnimationFrame" >> ]_vars

\* C13 (amended): every animate pass first requests the next callback and
\* then clears, draws the dots, draws the connections, advances and
\* boundary-checks; it leaves exactly one callback waiting, and no more than
\* one is ever waiting; the first pass is run by the mount itself and every
\* later pass by a frame callback, each frame callback running one pass.
C13_RequestFirst ==
  [][ /\ rafQueue' <= 1
      /\ PassStep =>
            /\ frameOps' = << "requestAnimationFrame", "clearRect", "fillDots",
                              "drawConnections", "updateDots" >>
            /\ rafQueue' = 1
            /\ lastEvent' = (IF frames = 0 THEN "mount" ELSE "frame")
      /\ lastEvent' = "frame" => PassStep ]_vars

\* C13 witness: the third pass, run by a frame callback that was the only
\* one waiting, has left one callback waiting.
C13_Witness ==
  /\ lastEvent = "frame"
  /\ frames = 3
  /\ rafQueue = 1
  /\ frameOps # << >>
  /\ frameOps[1] = "requestAnimationFrame"

\* C14 (as claimed): whatever the interleaving of the add-expense mutations,
\* no two rows of the table are equal on date, category_id, description,
\* quantity, unit and amount; and a submission whose duplicate check found a
\* row equal to it on those six columns has failed with an error and is not
\* about to insert.
C14_NoDuplicateRows ==
  /\ \A i, j \in DOMAIN expenses :
       i # j => sixFields(expenses[i]) # sixFields(expenses[j])
  /\ \A f \in Forms :
       forms[f].matched > 0 =>
         /\ forms[f].stage # "insert"
         /\ forms[f].outcome \notin { "none", "added" }

\* C15: after any sequence of Edit, input changes, Cancel and Save, isEditing
\* is null exactly when formData is null, a non-null formData has the id
\* isEditing holds, and the edit form is on screen only with formData set;
\* the step that issues an update mutation issues it for formData, whose id
\* is isEditing, and sets both to null in that same step; and no settling of
\* a mutation, successful or failed, changes either of them.
C15_EditStateInStep ==
  /\ [](/\ isEditing = << >> <=> formData = << >>
        /\ formData # << >> => formData[1].id = isEditing[1]
        /\ "editForm" \in screen => formData # << >>)
  /\ [][ /\ Len(issued') > Len(issued) /\ issued'[Len(issued')].kind = "update" =>
             /\ isEditing # << >>
             /\ issued'[Len(issued')].data = formData[1]
             /\ issued'[Len(issued')].data.id = isEditing[1]
             /\ pending' = Append(pending, issued'[Len(issued')])
             /\ isEditing' = << >>
             /\ formData' = << >>
         /\ Len(pending') < Len(pending) =>
             UNCHANGED << isEditing, formData >> ]_vars

\* C15 witness: an expense was opened with Edit, its description changed and
\* saved; the update has failed, the table being as before, and both values
\* are null.
C15_Witness ==
  /\ isEditing = << >>
  /\ formData = << >>
  /\ Len(issued) = 1
  /\ issued[1].kind = "update"
  /\ issued[1].data.description = "tea"
  /\ pending = << >>
  /\ expenses = TrackedRows

\* C16: the totals, the list, the edit, delete, add and sign-out controls
\* (and the forms) are on screen only while user is non-null; without a user
\* the loader alone is; and once getCurrentUser has answered with no user,
\* user is still null, one navigation to /signin has been issued and nothing
\* but the loader has ever been rendered.
C16_OnlyLoaderWithoutUser ==
  /\ screen # { "loader" } => user # << >>
  /\ user = << >> => "loader" \in screen
  /\ userCheck = "none" =>
       /\ user = << >>
       /\ navigations = << "/signin" >>
       /\ shown = { "loader" }

\* C16 witness: getCurrentUser has answered with no user and the query of
\* today's expenses has brought rows since.
C16_Witness ==
  /\ userCheck = "none"
  /\ user = << >>
  /\ todayExpenses # << >>
  /\ navigations = << "/signin" >>

====
